---- MODULE Spec2Model ----
(***************************************************************************)
(* Model of src/src/pages/Dashboard.tsx: the helper logic (computeCentroid, *)
(* num, buildPieFromSoil, analyzeWeather) and the Dashboard component's     *)
(* weather state with its fetchWeather effect and map-selection handler.    *)
(*                                                                         *)
(* Conventions of the model                                                *)
(*  - A JavaScript number is a fixed-point integer: the value times Scale  *)
(*    (four decimals).  Every number the program computes from the soil    *)
(*    table has at most four decimals, so the products are exact; toFixed  *)
(*    rounds half up, as Number.prototype.toFixed does on these values.    *)
(*  - A display string that the program parses or searches (a soil value   *)
(*    or a soil entry name) is a sequence of one-character strings, so     *)
(*    that num, toFixed and String.includes are computed and not assumed.  *)
(*    Str renders such a sequence as an ordinary string.                   *)
(*  - Texts that the program only stores and compares (alerts,             *)
(*    recommendations, statuses, error messages) are ordinary strings; the *)
(*    dashes of the source texts are written "-".                          *)
(*  - A value that may be undefined or null is None or Some(v).            *)
(*  - pop (probability of precipitation) is in hundredths: 0.8 is 80.      *)
(***************************************************************************)
EXTENDS Integers, Sequences, FiniteSets, TLC

\* An optional value: None for undefined / null / an absent field.
None == <<>>

Some(v) == <<v>>

The(m) == m[1]

Scale == 100 * 100

\* ------------------------------------------------------------------------
\* Characters, strings and numbers
\* ------------------------------------------------------------------------

DigitChars == <<"0", "1", "2", "3", "4", "5", "6", "7", "8", "9">>

DigitSet == {"0", "1", "2", "3", "4", "5", "6", "7", "8", "9"}

IsDigit(c) == c \in DigitSet

DigitVal(c) == (CHOOSE i \in 1..10 : DigitChars[i] = c) - 1

RECURSIVE Str(_)
Str(cs) == IF cs = <<>> THEN "" ELSE Head(cs) \o Str(Tail(cs))

RECURSIVE Pow10(_)
Pow10(n) == IF n = 0 THEN 1 ELSE 10 * Pow10(n - 1)

Max(a, b) == IF a >= b THEN a ELSE b

\* String.prototype.includes: sub occurs in s as a contiguous run.
Includes(s, sub) ==
    \E i \in 1..(Len(s) - Len(sub) + 1) : SubSeq(s, i, i + Len(sub) - 1) = sub

\* Array.prototype.find as an index, given for each element whether the
\* callback accepts it: the first i >= from accepted, 0 when there is none.
RECURSIVE FindFrom(_, _)
FindFrom(hits, from) ==
    IF from > Len(hits) THEN 0
    ELSE IF hits[from] THEN from ELSE FindFrom(hits, from + 1)

FindIndex(hits) == FindFrom(hits, 1)

\* The decimal digits of the natural number n, most significant first.
RECURSIVE DigitsOf(_)
DigitsOf(n) ==
    IF n < 10 THEN <<DigitChars[n + 1]>>
    ELSE Append(DigitsOf(n \div 10), DigitChars[(n % 10) + 1])

\* The natural number written by a run of digits.
RECURSIVE NatOf(_)
NatOf(ds) ==
    IF ds = <<>> THEN 0
    ELSE 10 * NatOf(SubSeq(ds, 1, Len(ds) - 1)) + DigitVal(ds[Len(ds)])

\* The last index of the run of digits of s that starts at i.
RECURSIVE DigitsEnd(_, _)
DigitsEnd(s, i) ==
    IF i < Len(s) /\ IsDigit(s[i + 1]) THEN DigitsEnd(s, i + 1) ELSE i

\* parseFloat of a matched token: the fraction is kept to four decimals.
FracOf(ds) ==
    LET kept == SubSeq(ds, 1, IF Len(ds) > 4 THEN 4 ELSE Len(ds))
    IN  NatOf(kept) * Pow10(4 - Len(kept))

\* num(s): a number is returned as it is; in a string the first match of
\* /-?\d+(\.\d+)?/ is parsed, and 0 is returned when nothing matches.
\* The first position >= i where the pattern can match, 0 when none.
RECURSIVE MatchStart(_, _)
MatchStart(s, i) ==
    IF i > Len(s) THEN 0
    ELSE IF \/ IsDigit(s[i])
            \/ s[i] = "-" /\ i < Len(s) /\ IsDigit(s[i + 1])
         THEN i ELSE MatchStart(s, i + 1)

\* The value of the digits s[a..b] and of the fraction that may follow.
magnitudeAt(s, a, b) ==
    NatOf(SubSeq(s, a, b)) * Scale
      + (IF b + 2 <= Len(s) /\ s[b + 1] = "." /\ IsDigit(s[b + 2])
         THEN FracOf(SubSeq(s, b + 2, DigitsEnd(s, b + 2))) ELSE 0)

matchAt(s, m) ==
    IF m = 0 THEN 0
    ELSE IF s[m] = "-" THEN 0 - magnitudeAt(s, m + 1, DigitsEnd(s, m + 1))
         ELSE magnitudeAt(s, m, DigitsEnd(s, m))

numOfString(s) == matchAt(s, MatchStart(s, 1))

\* The argument of num is a string or a number (typeof s === "number").
JSString(s) == [t |-> "string", s |-> s]

JSNumber(n) == [t |-> "number", n |-> n]

num(v) == IF v.t = "number" THEN v.n ELSE numOfString(v.s)

\* x.toFixed(f) for f in 0..4: x rounded to f decimals, ties away from zero
\* towards the larger magnitude, written with exactly f decimals.
toFixed(x, f) ==
    LET mag  == IF x < 0 THEN 0 - x ELSE x
        unit == Pow10(4 - f)
        n    == (mag + unit \div 2) \div unit
        ip   == DigitsOf(n \div Pow10(f))
        fd   == DigitsOf(n % Pow10(f))
        pad  == [i \in 1..(f - Len(fd)) |-> "0"]
        body == IF f = 0 THEN ip ELSE ip \o <<".">> \o pad \o fd
    IN  IF x < 0 THEN <<"-">> \o body ELSE body

\* x * (c / 100), the product of a number and a two-decimal literal.
Times(x, c) == (x * c) \div 100

\* ------------------------------------------------------------------------
\* Data and configuration
\* ------------------------------------------------------------------------

\* The names of the soil entries and the fragments the program searches for.
NamePH   == <<"p", "H", " ", "L", "e", "v", "e", "l">>
NameOC   == <<"O", "r", "g", "a", "n", "i", "c", " ", "C", "a", "r", "b", "o", "n", " ", "(", "O", "C", ")">>
NameN    == <<"N", "i", "t", "r", "o", "g", "e", "n", " ", "(", "N", ")">>
NameP    == <<"P", "h", "o", "s", "p", "h", "o", "r", "u", "s", " ", "(", "P", ")">>
NameK    == <<"P", "o", "t", "a", "s", "s", "i", "u", "m", " ", "(", "K", ")">>
NameZn   == <<"Z", "i", "n", "c", " ", "(", "Z", "n", ")">>
NameFe   == <<"I", "r", "o", "n", " ", "(", "F", "e", ")">>
NameOCPie == <<"O", "r", "g", "a", "n", "i", "c", " ", "C", "a", "r", "b", "o", "n", " ", "(", "%", ")">>
KeyN     == <<"(", "N", ")">>
KeyP     == <<"(", "P", ")">>
KeyK     == <<"(", "K", ")">>
KeyPH    == <<"p", "H">>
KeyOC    == <<"O", "r", "g", "a", "n", "i", "c", " ", "C", "a", "r", "b", "o", "n">>
KeyZn    == <<"(", "Z", "n", ")">>
KeyFe    == <<"(", "F", "e", ")">>
KgPerHa  == <<" ", "k", "g", "/", "h", "a">>
Percent  == <<"%">>

\* The baseline soil record as the module constant is written in the source.
detailedSoilDataInit ==
    [general |-> <<
        [name |-> NamePH, value |-> <<"5", ".", "8">>, status |-> "Low"],
        [name |-> NameOC, value |-> <<"0", ".", "4", "5", "%">>, status |-> "Low"] >>,
     macroNutrients |-> <<
        [name |-> NameN, value |-> <<"2", "1", "0", " ", "k", "g", "/", "h", "a">>, status |-> "Low"],
        [name |-> NameP, value |-> <<"1", "5", " ", "k", "g", "/", "h", "a">>, status |-> "Optimal"],
        [name |-> NameK, value |-> <<"1", "2", "0", " ", "k", "g", "/", "h", "a">>, status |-> "Low"] >>,
     microNutrients |-> <<
        [name |-> NameZn, value |-> <<"0", ".", "5", " ", "p", "p", "m">>, status |-> "Low"],
        [name |-> NameFe, value |-> <<"4", ".", "8", " ", "p", "p", "m">>, status |-> "Optimal"] >>]

macroPieData ==
    << [name |-> NameN, value |-> 210 * Scale],
       [name |-> NameP, value |-> 15 * Scale],
       [name |-> NameK, value |-> 120 * Scale] >>

generalPieData ==
    << [name |-> NamePH, value |-> 58 * (Scale \div 10)],
       [name |-> NameOCPie, value |-> 45 * (Scale \div 100)] >>

microPieData ==
    << [name |-> NameZn, value |-> 5 * (Scale \div 10)],
       [name |-> NameFe, value |-> 48 * (Scale \div 10)] >>

\* ------------------------------------------------------------------------
\* Helper logic
\* ------------------------------------------------------------------------

\* arr.find(e => e.name.includes(key))?.value ?? 0
ValueOf(arr, key) ==
    LET i == FindIndex([j \in 1..Len(arr) |-> Includes(arr[j].name, key)])
    IN  IF i = 0 THEN JSNumber(0) ELSE JSString(arr[i].value)

buildPieFromSoil(soil) ==
    [macro |-> << [name |-> NameN, value |-> num(ValueOf(soil.macroNutrients, KeyN))],
                  [name |-> NameP, value |-> num(ValueOf(soil.macroNutrients, KeyP))],
                  [name |-> NameK, value |-> num(ValueOf(soil.macroNutrients, KeyK))] >>,
     general |-> << [name |-> NamePH, value |-> num(ValueOf(soil.general, KeyPH))],
                    [name |-> NameOCPie, value |-> num(ValueOf(soil.general, KeyOC))] >>,
     micro |-> << [name |-> NameZn, value |-> num(ValueOf(soil.microNutrients, KeyZn))],
                  [name |-> NameFe, value |-> num(ValueOf(soil.microNutrients, KeyFe))] >>]

\* ------------------------------------------------------------------------
\* State
\* ------------------------------------------------------------------------

VARIABLES
    \* module level
    detailedSoilData,   \* the baseline soil record (a shared object)
    apiKey,             \* import.meta.env.VITE_OWM_KEY, None when not configured
    \* Dashboard component state (useState)
    location, fieldAreaInSqM, displayedArea, unit, fieldPolygon,
    coords, weatherLoading, weatherError, currentWeather, dailyForecast,
    adaptiveSoil, adaptiveMacroPie, adaptiveGeneralPie, adaptiveMicroPie,
    weatherAlerts, adaptiveRecs,
    \* the fetchWeather invocations suspended at an await, oldest first
    pending,
    issued,             \* number of fetchWeather invocations that passed the guard
    finished,           \* the invocations that ended, in the order they ended
    unhandled,          \* TRUE once an error left fetchWeather uncaught
    \* a direct caller of analyzeWeather
    arg, ret, calls

dashVars == <<location, fieldAreaInSqM, displayedArea, unit, fieldPolygon,
              coords, weatherLoading, weatherError, currentWeather,
              dailyForecast, adaptiveSoil, adaptiveMacroPie, adaptiveGeneralPie,
              adaptiveMicroPie, weatherAlerts, adaptiveRecs>>

fetchVars == <<pending, issued, finished, unhandled>>

callVars == <<arg, ret, calls>>

vars == <<detailedSoilData, apiKey, dashVars, fetchVars, callVars>>

\* ------------------------------------------------------------------------
\* analyzeWeather
\* ------------------------------------------------------------------------

AlertWind    == "High winds expected - risk of lodging and spray drift."
AlertFungal  == "Very humid & warm - fungal disease pressure likely."
AlertLeach   == "Heavy rain likely - leaching of Nitrogen and Potassium expected."
AlertDrought == "Heat wave & dry spell for 3+ days - drought stress risk."
AlertNone    == "No unusual weather risks detected this week."

FertHeavyRain == "Split-apply N & K (e.g., Urea + MOP) after heavy rain; add stabilizers (NBPT) to reduce N losses."
FertHeat      == "Prefer K-rich blends (e.g., 10-5-20) to aid osmotic balance; avoid surface-applied urea before irrigation."
FertDefault   == "Balanced NPK (10-5-20). Base dose with top-up based on soil test and crop stage."
ZincRec       == "Apply Zinc Sulphate (21%) ~10 kg/acre at soil prep or 0.5% foliar if deficiency persists."
PHRainPrefix  == "Consider light liming to buffer acidity from rain; "
PHLime        == "Use dolomitic lime if Mg is low."
IrrHeat       == "Adopt shorter, more frequent irrigation; mulch to conserve soil moisture."
IrrRain       == "Delay irrigation for 2-3 days post heavy rain; improve drainage if waterlogging."
IrrDefault    == "Irrigate 2-3 days interval based on field condition."
PestHumid     == "High humidity: scout for late blight; preventive Mancozeb/Chlorothalonil spray window."
PestDefault   == "Keep scouting for aphids/whiteflies; use yellow sticky traps; spot-treat with Imidacloprid if needed."

\* v ?? d
Coalesce(v, d) == IF v = None THEN d ELSE The(v)

\* Reading d.temp.max throws a TypeError when d.temp is absent.  The two
\* reads of the loop body sit behind && and are reached only on these days.
ReadsTemp(d) == d.pop <= 20 \/ Coalesce(d.humidity, 0) >= 90

DayThrows(d) == d.temp = None /\ ReadsTemp(d)

TypeErrorMessage == "Cannot read properties of undefined (reading 'max')"

\* Variant of isHeavyRainDay: the probability alone is enough.
isHeavyRainDayByPop(d) ==
    LET rainAmount == Coalesce(d.rain, 0)
    IN  rainAmount >= 50 \/ d.pop >= 80

isHeavyRainDay(d) ==
    LET rainAmount == Coalesce(d.rain, 0)
    IN  rainAmount >= 50 \/ (d.pop >= 80 /\ rainAmount >= 30)

isDryHot(d) == d.pop <= 20 /\ The(d.temp).max >= 35

\* Variant of dayAlerts: the wind alert only above 12.
dayAlertsWindOver(d) ==
    (IF Coalesce(d.wind_speed, 0) > 12 THEN <<AlertWind>> ELSE <<>>)
  \o (IF Coalesce(d.humidity, 0) >= 90 /\ The(d.temp).max >= 28
      THEN <<AlertFungal>> ELSE <<>>)

\* The alerts one day pushes, in the order of the two statements.
dayAlerts(d) ==
    (IF Coalesce(d.wind_speed, 0) >= 12 THEN <<AlertWind>> ELSE <<>>)
  \o (IF Coalesce(d.humidity, 0) >= 90 /\ The(d.temp).max >= 28
      THEN <<AlertFungal>> ELSE <<>>)

\* Variant of scanDays: droughtStreak is never reset to zero.
RECURSIVE scanDaysNoReset(_, _)
scanDaysNoReset(daily, n) ==
    IF n = 0
    THEN [heavyRainDays |-> 0, droughtStreak |-> 0, maxHeatStreak |-> 0,
          alerts |-> <<>>]
    ELSE LET s  == scanDaysNoReset(daily, n - 1)
             d  == daily[n]
             ds == IF isDryHot(d) THEN s.droughtStreak + 1 ELSE s.droughtStreak
         IN  [heavyRainDays |-> s.heavyRainDays
                                  + (IF isHeavyRainDay(d) THEN 1 ELSE 0),
              droughtStreak |-> ds,
              maxHeatStreak |-> Max(s.maxHeatStreak, ds),
              alerts        |-> s.alerts \o dayAlerts(d)]

\* daily.forEach(...): the loop state after the first n days.
RECURSIVE scanDays(_, _)
scanDays(daily, n) ==
    IF n = 0
    THEN [heavyRainDays |-> 0, droughtStreak |-> 0, maxHeatStreak |-> 0,
          alerts |-> <<>>]
    ELSE LET s  == scanDays(daily, n - 1)
             d  == daily[n]
             ds == IF isDryHot(d) THEN s.droughtStreak + 1 ELSE 0
         IN  [heavyRainDays |-> s.heavyRainDays
                                  + (IF isHeavyRainDay(d) THEN 1 ELSE 0),
              droughtStreak |-> ds,
              maxHeatStreak |-> Max(s.maxHeatStreak, ds),
              alerts        |-> s.alerts \o dayAlerts(d)]

\* Variant of weekAlerts: the two weekly alerts are pushed before the
\* alerts of the days.
weekAlertsFirst(s) ==
    LET a1 == (IF s.heavyRainDays >= 1 THEN <<AlertLeach>> ELSE <<>>)
        a2 == a1 \o (IF s.maxHeatStreak >= 3 THEN <<AlertDrought>> ELSE <<>>)
        a3 == a2 \o s.alerts
    IN  IF Len(a3) = 0 THEN <<AlertNone>> ELSE a3

weekAlerts(s) ==
    LET a1 == s.alerts
               \o (IF s.heavyRainDays >= 1 THEN <<AlertLeach>> ELSE <<>>)
        a2 == a1 \o (IF s.maxHeatStreak >= 3 THEN <<AlertDrought>> ELSE <<>>)
    IN  IF Len(a2) = 0 THEN <<AlertNone>> ELSE a2

\* Variant of uniqueInOrder: the array is returned as it was pushed.
keepAll(a) == a

\* Array.from(new Set(alerts)): the first occurrence of each string is kept.
RECURSIVE uniqueInOrder(_)
uniqueInOrder(a) ==
    IF a = <<>> THEN <<>>
    ELSE LET init == uniqueInOrder(SubSeq(a, 1, Len(a) - 1))
             x    == a[Len(a)]
         IN  IF \E i \in 1..Len(init) : init[i] = x THEN init
             ELSE Append(init, x)

\* Variant of deepCopy: const adjusted = detailedSoilData, the same object.
aliasCopy(obj) == [shared |-> TRUE, val |-> obj]

\* const adjusted = JSON.parse(JSON.stringify(detailedSoilData)): a new
\* object with the same content; writes to it do not reach the original.
deepCopy(obj) == [shared |-> FALSE, val |-> obj]

\* if (e) e.value = v, for e = arr.find(x => x.name.includes(key))
withValue(arr, key, v) ==
    LET i == FindIndex([j \in 1..Len(arr) |-> Includes(arr[j].name, key)])
    IN  IF i = 0 THEN arr ELSE [arr EXCEPT ![i].value = v]

nonNeg(x) == Max(0, x)

\* Variant of heavyRainAdjust: Phosphorus is leached as well.
heavyRainAdjustWithP(adj) ==
    LET m  == adj.macroNutrients
        g  == adj.general
        n  == ValueOf(m, KeyN)
        p  == ValueOf(m, KeyP)
        k  == ValueOf(m, KeyK)
        pH == ValueOf(g, KeyPH)
        oc == ValueOf(g, KeyOC)
        m1 == withValue(m, KeyN, toFixed(nonNeg(Times(num(n), 90)), 0) \o KgPerHa)
        m2 == withValue(m1, KeyK, toFixed(nonNeg(Times(num(k), 92)), 0) \o KgPerHa)
        m3 == withValue(m2, KeyP, toFixed(nonNeg(Times(num(p), 90)), 0) \o KgPerHa)
        g1 == withValue(g, KeyPH, toFixed(nonNeg(num(pH) - Scale \div 10), 1))
        g2 == withValue(g1, KeyOC, toFixed(nonNeg(Times(num(oc), 98)), 2) \o Percent)
    IN  [adj EXCEPT !.macroNutrients = m3, !.general = g2]

heavyRainAdjust(adj) ==
    LET m  == adj.macroNutrients
        g  == adj.general
        n  == ValueOf(m, KeyN)
        k  == ValueOf(m, KeyK)
        pH == ValueOf(g, KeyPH)
        oc == ValueOf(g, KeyOC)
        m1 == withValue(m, KeyN, toFixed(nonNeg(Times(num(n), 90)), 0) \o KgPerHa)
        m2 == withValue(m1, KeyK, toFixed(nonNeg(Times(num(k), 92)), 0) \o KgPerHa)
        g1 == withValue(g, KeyPH, toFixed(nonNeg(num(pH) - Scale \div 10), 1))
        g2 == withValue(g1, KeyOC, toFixed(nonNeg(Times(num(oc), 98)), 2) \o Percent)
    IN  [adj EXCEPT !.macroNutrients = m2, !.general = g2]

heatAdjust(adj) ==
    LET m  == adj.macroNutrients
        g  == adj.general
        k  == ValueOf(m, KeyK)
        pH == ValueOf(g, KeyPH)
        oc == ValueOf(g, KeyOC)
        m1 == withValue(m, KeyK, toFixed(nonNeg(Times(num(k), 95)), 0) \o KgPerHa)
        g1 == withValue(g, KeyPH, toFixed(num(pH) + Scale \div 10, 1))
        g2 == withValue(g1, KeyOC, toFixed(Times(num(oc), 103), 2) \o Percent)
    IN  [adj EXCEPT !.macroNutrients = m1, !.general = g2]

\* Variant of classify: the two bounds are taken in the wrong order.
classifySwapped(x, lo, hi) ==
    IF x < hi THEN "Low" ELSE IF x > lo THEN "High" ELSE "Optimal"

\* The threshold classification of setStatus: lo and hi are the bounds.
classify(x, lo, hi) == IF x < lo THEN "Low" ELSE IF x > hi THEN "High" ELSE "Optimal"

\* set(arr, name, status): the entry whose name is exactly `name`.
withStatus(arr, name, status) ==
    LET i == FindIndex([j \in 1..Len(arr) |-> arr[j].name = name])
    IN  IF i = 0 THEN arr ELSE [arr EXCEPT ![i].status = status]

setStatus(adj) ==
    LET n  == num(ValueOf(adj.macroNutrients, KeyN))
        p  == num(ValueOf(adj.macroNutrients, KeyP))
        k  == num(ValueOf(adj.macroNutrients, KeyK))
        pH == num(ValueOf(adj.general, KeyPH))
        oc == num(ValueOf(adj.general, KeyOC))
        m1 == withStatus(adj.macroNutrients, NameN,
                         classify(n, 250 * Scale, 350 * Scale))
        m2 == withStatus(m1, NameP, classify(p, 12 * Scale, 30 * Scale))
        m3 == withStatus(m2, NameK, classify(k, 150 * Scale, 300 * Scale))
        g1 == withStatus(adj.general, NamePH,
                         classify(pH, 6 * Scale, 75 * (Scale \div 10)))
        g2 == withStatus(g1, NameOC,
                         classify(oc, 75 * (Scale \div 100), 15 * (Scale \div 10)))
    IN  [adj EXCEPT !.macroNutrients = m3, !.general = g2]

\* Variant of fertilizerRec: the heat streak is tested first.
fertilizerRecHeatFirst(heavyRainDays, maxHeatStreak) ==
    IF maxHeatStreak >= 3 THEN FertHeat
    ELSE IF heavyRainDays # 0 THEN FertHeavyRain ELSE FertDefault

fertilizerRec(heavyRainDays, maxHeatStreak) ==
    IF heavyRainDays # 0 THEN FertHeavyRain
    ELSE IF maxHeatStreak >= 3 THEN FertHeat ELSE FertDefault

\* Variant of pHRec: nothing is said when there was no heavy rain.
pHRecNoDefault(heavyRainDays, maxHeatStreak) ==
    IF heavyRainDays # 0 THEN PHRainPrefix \o PHLime ELSE ""

\* Variant of pHRec: the prefix is added for a heat streak as well.
pHRecHeatToo(heavyRainDays, maxHeatStreak) ==
    (IF heavyRainDays # 0 \/ maxHeatStreak >= 3 THEN PHRainPrefix ELSE "")
        \o PHLime

pHRec(heavyRainDays, maxHeatStreak) ==
    (IF heavyRainDays # 0 THEN PHRainPrefix ELSE "") \o PHLime

\* Variant of irrigationRec: heavy rain is tested first.
irrigationRecRainFirst(heavyRainDays, maxHeatStreak) ==
    IF heavyRainDays # 0 THEN IrrRain
    ELSE IF maxHeatStreak >= 3 THEN IrrHeat ELSE IrrDefault

irrigationRec(heavyRainDays, maxHeatStreak) ==
    IF maxHeatStreak >= 3 THEN IrrHeat
    ELSE IF heavyRainDays # 0 THEN IrrRain ELSE IrrDefault

\* Variant of pestRec: the day must also be warm, as in the fungal alert.
pestRecWarmOnly(daily) ==
    IF \E i \in 1..Len(daily) :
          /\ Coalesce(daily[i].humidity, 0) >= 90
          /\ daily[i].temp # None /\ The(daily[i].temp).max >= 28
    THEN PestHumid ELSE PestDefault

pestRec(daily) ==
    IF \E i \in 1..Len(daily) : Coalesce(daily[i].humidity, 0) >= 90
    THEN PestHumid ELSE PestDefault

\* Variant of rainRule: the reduction is applied once per heavy-rain day.
RECURSIVE rainRulePerDay(_, _)
rainRulePerDay(adj, heavyRainDays) ==
    IF heavyRainDays >= 1
    THEN heavyRainAdjust(rainRulePerDay(adj, heavyRainDays - 1)) ELSE adj

\* Variants of heatRule: a streak of two days, or only of more than three.
heatRuleTwoDays(adj, maxHeatStreak) ==
    IF maxHeatStreak >= 2 THEN heatAdjust(adj) ELSE adj

heatRuleOverThree(adj, maxHeatStreak) ==
    IF maxHeatStreak > 3 THEN heatAdjust(adj) ELSE adj

\* if (heavyRainDays >= 1) { ... } and if (maxHeatStreak >= 3) { ... }
rainRule(adj, heavyRainDays) ==
    IF heavyRainDays >= 1 THEN heavyRainAdjust(adj) ELSE adj

heatRule(adj, maxHeatStreak) ==
    IF maxHeatStreak >= 3 THEN heatAdjust(adj) ELSE adj

\* Variant of adjustSoil: the heat rule reads the values of the copy as
\* they were before the heavy-rain rule.
adjustSoilHeatOnCopy(copy, heavyRainDays, maxHeatStreak) ==
    setStatus(IF maxHeatStreak >= 3 THEN heatAdjust(copy)
              ELSE rainRule(copy, heavyRainDays))

\* The soil record after the two rules and the status recomputation.
adjustSoil(copy, heavyRainDays, maxHeatStreak) ==
    setStatus(heatRule(rainRule(copy, heavyRainDays), maxHeatStreak))

\* analyzeWeather(daily), run while the module's baseline is `base`.  The
\* result also tells what the call did to the program outside its return
\* value: `threw` when the loop raised a TypeError, and `baseline`, the
\* content of detailedSoilData after the call (the writes go to `adjusted`,
\* which shares storage with the baseline only if the copy does).
recsOf(daily, s) ==
    [fertilizer |-> fertilizerRec(s.heavyRainDays, s.maxHeatStreak),
     zinc       |-> ZincRec,
     pH         |-> pHRec(s.heavyRainDays, s.maxHeatStreak),
     irrigation |-> irrigationRec(s.heavyRainDays, s.maxHeatStreak),
     pest       |-> pestRec(daily)]

\* The return statement, with what became of the baseline.
returned(base, copy, alerts, adjusted, recs) ==
    [threw |-> FALSE, alerts |-> alerts, adjustedSoil |-> adjusted,
     recs |-> recs, baseline |-> IF copy.shared THEN adjusted ELSE base]

afterLoop(base, daily, s, copy) ==
    returned(base, copy, uniqueInOrder(weekAlerts(s)),
             adjustSoil(copy.val, s.heavyRainDays, s.maxHeatStreak),
             recsOf(daily, s))

analyze(base, daily) ==
    IF \E i \in 1..Len(daily) : DayThrows(daily[i])
    THEN [threw |-> TRUE, message |-> TypeErrorMessage, baseline |-> base]
    ELSE afterLoop(base, daily, scanDays(daily, Len(daily)), deepCopy(base))

analyzeWeather(daily) == analyze(detailedSoilData, daily)

\* ------------------------------------------------------------------------
\* Forecasts
\* ------------------------------------------------------------------------

\* The longest forecast built from every choice of CoreDays.
MaxDays == 4

\* The number of analyzeWeather calls a direct caller makes.
MaxCalls == 2

\* A daily entry; rain, wind, hum and tmax are optional values.
Day(pop, rain, wind, hum, tmax) ==
    [pop |-> pop, rain |-> rain, wind_speed |-> wind, humidity |-> hum,
     temp |-> IF tmax = None THEN None
              ELSE Some([min |-> The(tmax) - 10, max |-> The(tmax)])]

calmDay  == Day(10, <<0>>, <<2>>, <<40>>, <<25>>)
rainDay  == Day(10, <<55>>, <<2>>, <<40>>, <<25>>)
hotDay   == Day(10, None, <<2>>, <<40>>, <<36>>)
muggyDay == Day(50, <<0>>, <<2>>, <<90>>, <<28>>)
windyDay == Day(50, <<0>>, <<12>>, <<40>>, <<25>>)

CoreDays == {calmDay, rainDay, hotDay, muggyDay, windyDay}

\* Days on and next to every threshold, with every optional field absent
\* or present, and with the temperature object missing.
EdgeDays ==
    {Day(pop, rain, wind, hum, tmax) :
        pop \in {20, 21, 79, 80},
        rain \in {None, <<29>>, <<30>>, <<49>>, <<50>>},
        wind \in {None, <<11>>, <<12>>}, hum \in {None, <<89>>, <<90>>},
        tmax \in {None, <<27>>, <<28>>, <<34>>, <<35>>}}

Week(ds) == [i \in 1..7 |-> IF i <= Len(ds) THEN ds[i] ELSE calmDay]

\* Seven-day forecasts: calm, one heavy-rain day, a three-day heat wave, hot
\* days that never make a run of three, a wet week, heat wave with rain.
Weeks ==
    { Week(<<>>),
      Week(<<rainDay>>),
      Week(<<hotDay, hotDay, hotDay>>),
      Week(<<hotDay, hotDay, calmDay, hotDay, hotDay, calmDay, hotDay>>),
      Week(<<rainDay, rainDay, rainDay, rainDay, rainDay, rainDay, rainDay>>),
      Week(<<calmDay, hotDay, hotDay, hotDay, hotDay, rainDay, windyDay>>),
      Week(<<muggyDay, windyDay, muggyDay, windyDay>>),
      Week(<<Day(50, <<0>>, None, <<95>>, <<20>>), hotDay,
             Day(50, <<0>>, <<11>>, None, <<30>>)>>) }

Forecasts ==
    UNION {[1..n -> CoreDays] : n \in 0..MaxDays}
      \cup {<<d>> : d \in EdgeDays}
      \cup Weeks

\* ------------------------------------------------------------------------
\* Geometry and area
\* ------------------------------------------------------------------------

RECURSIVE GCD(_, _)
GCD(a, b) == IF b = 0 THEN a ELSE GCD(b, a % b)

Abs(x) == IF x < 0 THEN 0 - x ELSE x

\* The exact quotient n / d in lowest terms with a positive denominator.
\* Vertices are points of an integer grid.  A division by zero gives what
\* it gives in JavaScript: 1/0 and -1/0 stand for +Infinity and -Infinity,
\* 0/0 for NaN.
Rat(n, d) ==
    LET g == GCD(Abs(n), Abs(d))
        sgn == IF d < 0 THEN 0 - 1 ELSE 1
    IN  IF d = 0
        THEN [num |-> IF n > 0 THEN 1 ELSE IF n < 0 THEN 0 - 1 ELSE 0,
              den |-> 0]
        ELSE [num |-> sgn * (n \div g), den |-> sgn * (d \div g)]

RECURSIVE SumTo(_, _)
SumTo(f, n) == IF n = 0 THEN 0 ELSE SumTo(f, n - 1) + f[n]

\* Variant of computeCentroid: the division is by the magnitude of the
\* area, as if the area had been made positive.
computeCentroidAbsArea(cs) ==
    IF Len(cs) = 0 THEN None
    ELSE Some(
         LET n      == Len(cs)
             nxt(i) == cs[(i % n) + 1]
             cross  == [i \in 1..n |-> cs[i][1] * nxt(i)[2] - nxt(i)[1] * cs[i][2]]
             twice  == SumTo(cross, n)
             cx     == SumTo([i \in 1..n |-> (cs[i][1] + nxt(i)[1]) * cross[i]], n)
             cy     == SumTo([i \in 1..n |-> (cs[i][2] + nxt(i)[2]) * cross[i]], n)
         IN  IF twice = 0
             THEN [lat |-> Rat(cs[1][1], 1), lon |-> Rat(cs[1][2], 1)]
             ELSE [lat |-> Rat(cx, 3 * Abs(twice)),
                   lon |-> Rat(cy, 3 * Abs(twice))])

\* Variant of computeCentroid: the sum of the cross products is used as
\* the area, without `area *= 0.5`.
computeCentroidNoHalf(cs) ==
    IF Len(cs) = 0 THEN None
    ELSE Some(
         LET n      == Len(cs)
             nxt(i) == cs[(i % n) + 1]
             cross  == [i \in 1..n |-> cs[i][1] * nxt(i)[2] - nxt(i)[1] * cs[i][2]]
             twice  == SumTo(cross, n)
             cx     == SumTo([i \in 1..n |-> (cs[i][1] + nxt(i)[1]) * cross[i]], n)
             cy     == SumTo([i \in 1..n |-> (cs[i][2] + nxt(i)[2]) * cross[i]], n)
         IN  IF twice = 0
             THEN [lat |-> Rat(cs[1][1], 1), lon |-> Rat(cs[1][2], 1)]
             ELSE [lat |-> Rat(cx, 6 * twice), lon |-> Rat(cy, 6 * twice)])

\* Variant of computeCentroid: no test of the area before the division.
computeCentroidUnguarded(cs) ==
    IF Len(cs) = 0 THEN None
    ELSE Some(
         LET n      == Len(cs)
             nxt(i) == cs[(i % n) + 1]
             cross  == [i \in 1..n |-> cs[i][1] * nxt(i)[2] - nxt(i)[1] * cs[i][2]]
             twice  == SumTo(cross, n)
             cx     == SumTo([i \in 1..n |-> (cs[i][1] + nxt(i)[1]) * cross[i]], n)
             cy     == SumTo([i \in 1..n |-> (cs[i][2] + nxt(i)[2]) * cross[i]], n)
         IN  [lat |-> Rat(cx, 3 * twice), lon |-> Rat(cy, 3 * twice)])

computeCentroid(cs) ==
    IF Len(cs) = 0 THEN None
    ELSE Some(
         LET n      == Len(cs)
             nxt(i) == cs[(i % n) + 1]
             cross  == [i \in 1..n |-> cs[i][1] * nxt(i)[2] - nxt(i)[1] * cs[i][2]]
             \* area before `area *= 0.5`; the sums of integers are exact, so
             \* Math.abs(area) < 1e-12 is twice = 0
             twice  == SumTo(cross, n)
             cx     == SumTo([i \in 1..n |-> (cs[i][1] + nxt(i)[1]) * cross[i]], n)
             cy     == SumTo([i \in 1..n |-> (cs[i][2] + nxt(i)[2]) * cross[i]], n)
         IN  IF twice = 0
             THEN [lat |-> Rat(cs[1][1], 1), lon |-> Rat(cs[1][2], 1)]
             ELSE [lat |-> Rat(cx, 3 * twice), lon |-> Rat(cy, 3 * twice)])

\* conversionFactors: each factor is the decimal literal n / 10^d.
conversionFactors ==
    [sq_m     |-> [n |-> 1,      d |-> 0],
     sq_ft    |-> [n |-> 107639, d |-> 4],
     acres    |-> [n |-> 247105, d |-> 9],
     hectares |-> [n |-> 1,      d |-> 4],
     bigha    |-> [n |-> 74752,  d |-> 9],
     katha    |-> [n |-> 149505, d |-> 8]]

Units == DOMAIN conversionFactors

\* The product fieldAreaInSqM * conversionFactors[unit] is a product of
\* IEEE 754 doubles: the factor is the double nearest to its literal, the
\* product is rounded to 53 bits, and toFixed rounds the exact value of
\* that double.  Naturals too large for a machine integer are sequences
\* of limbs of 15 bits, least significant first.
Limb == 2^15

\* The limbs of the sum of the digits x[i] * Limb^(i-1) and the carry c.
RECURSIVE Carry(_, _)
Carry(x, c) ==
    IF Len(x) = 0
    THEN IF c = 0 THEN <<>> ELSE <<c % Limb>> \o Carry(<<>>, c \div Limb)
    ELSE <<(x[1] + c) % Limb>> \o Carry(Tail(x), (x[1] + c) \div Limb)

FromInt(n) == Carry(<<>>, n)

RECURSIVE ToInt(_)
ToInt(x) == IF Len(x) = 0 THEN 0 ELSE x[1] + Limb * ToInt(Tail(x))

LimbAt(x, i) == IF i <= Len(x) THEN x[i] ELSE 0

Add(x, y) == Carry([i \in 1..Max(Len(x), Len(y)) |-> LimbAt(x, i) + LimbAt(y, i)], 0)

\* x * k for 0 <= k <= Limb.
MulSmall(x, k) == Carry([i \in 1..Len(x) |-> x[i] * k], 0)

\* x * 2^s
ShiftLeft(x, s) == [i \in 1..(s \div 15) |-> 0] \o MulSmall(x, 2^(s % 15))

\* x * n for a natural n below Limb * Limb.
MulInt(x, n) == Add(MulSmall(x, n % Limb), ShiftLeft(MulSmall(x, n \div Limb), 15))

\* Quotient and remainder of x by k, for 0 < k <= Limb.
RECURSIVE DivSmall(_, _)
DivSmall(x, k) ==
    IF Len(x) = 0 THEN [q |-> <<>>, r |-> 0]
    ELSE LET top == DivSmall(Tail(x), k)
             cur == top.r * Limb + x[1]
         IN  [q |-> <<cur \div k>> \o top.q, r |-> cur % k]

\* The quotient of x by 10^d, and whether the division is exact.
RECURSIVE DivPow10(_, _)
DivPow10(x, d) ==
    IF d = 0 THEN [q |-> x, exact |-> TRUE]
    ELSE LET step == IF d < 4 THEN d ELSE 4
             one  == DivSmall(x, Pow10(step))
             rest == DivPow10(one.q, d - step)
         IN  [q |-> rest.q, exact |-> rest.exact /\ one.r = 0]

Bit(x, i) == (LimbAt(x, (i \div 15) + 1) \div 2^(i % 15)) % 2

RECURSIVE LimbBits(_)
LimbBits(v) == IF v = 0 THEN 0 ELSE 1 + LimbBits(v \div 2)

RECURSIVE BitLen(_)
BitLen(x) ==
    IF Len(x) = 0 THEN 0
    ELSE IF x[Len(x)] = 0 THEN BitLen(SubSeq(x, 1, Len(x) - 1))
    ELSE 15 * (Len(x) - 1) + LimbBits(x[Len(x)])

\* floor(x / 2^s)
ShiftRight(x, s) ==
    [i \in 1..(Len(x) - (s \div 15)) |->
        LimbAt(x, i + (s \div 15)) \div 2^(s % 15)
          + (LimbAt(x, i + (s \div 15) + 1) % 2^(s % 15)) * 2^(15 - (s % 15))]

\* Round to nearest, ties to even, to 53 significant bits: the natural x,
\* followed by a non-zero fraction when sticky, becomes m * 2^s.
RoundToDouble(x, sticky) ==
    IF BitLen(x) <= 53 THEN [m |-> x, s |-> 0]
    ELSE LET s    == BitLen(x) - 53
             y    == ShiftRight(x, s)
             half == Bit(x, s - 1) = 1
             rest == sticky \/ \E j \in 0..(s - 2) : Bit(x, j) = 1
         IN  [m |-> IF half /\ (rest \/ Bit(y, 0) = 1) THEN Carry(y, 1) ELSE y,
              s |-> s]

\* The double nearest to the decimal literal f.n / 10^f.d, as m / 2^e.
doubleOf(f) ==
    LET scaled == DivPow10(ShiftLeft(FromInt(f.n), 90), f.d)
        r      == RoundToDouble(scaled.q, ~scaled.exact)
    IN  [m |-> r.m, e |-> 90 - r.s]

\* (area * factor).toFixed(2) as a count of hundredths, for a natural
\* area: the product is the double m / 2^e, and toFixed takes the integer
\* n nearest to 100 times its exact value, the larger one at a tie.
areaHundredths(area, f) ==
    LET fd == doubleOf(f)
        pr == RoundToDouble(MulInt(fd.m, area), FALSE)
        e  == fd.e - pr.s
    IN  ToInt(ShiftRight(Add(MulSmall(pr.m, 200), ShiftLeft(<<1>>, e)), e + 1))

fixed2(h) ==
    LET fd == DigitsOf(h % 100)
    IN  DigitsOf(h \div 100) \o <<".">>
          \o (IF Len(fd) = 1 THEN <<"0">> ELSE <<>>) \o fd

\* Variant of areaEffect: the factor of the initial unit whatever unit is
\* selected.
areaEffectAcres(area, u) ==
    IF area > 0
    THEN Str(fixed2(areaHundredths(area, conversionFactors.acres)))
    ELSE "0.00"

\* The body of the area effect.
areaEffect(area, u) ==
    IF area > 0 THEN Str(fixed2(areaHundredths(area, conversionFactors[u])))
    ELSE "0.00"

\* ------------------------------------------------------------------------
\* Inputs of the Dashboard
\* ------------------------------------------------------------------------

\* The number of fetchWeather invocations that pass the guard in one run.
MaxFetches == 2

squareA == << <<0, 0>>, <<2, 0>>, <<2, 2>>, <<0, 2>> >>
squareB == << <<4, 4>>, <<4, 8>>, <<8, 8>>, <<8, 4>> >>

\* What the map selector may pass to onLocationSelect.
SelLocations == {"Plot 7"}
SelPolygons  == {None, Some(<<>>), Some(squareA), Some(squareB)}
SelAreas     == {None, Some(0), Some(10000)}

\* What the forecast provider may answer.
Statuses      == {200, 401, 500}
NetworkErrors == {"Failed to fetch", ""}

calmBody   == [current |-> Some([temp |-> 22]), daily |-> Some(Week(<<>>))]
heatBody   == [current |-> Some([temp |-> 37]),
               daily |-> Some(Week(<<hotDay, hotDay, hotDay>>) \o <<rainDay>>)]
bareBody   == [current |-> None, daily |-> None]
brokenBody == [current |-> Some([temp |-> 30]),
               daily |-> Some(<<Day(10, <<0>>, <<2>>, <<40>>, None)>>)]

\* The bodies the provider may send, by name; "null" is the JSON value null.
BodyNames == {"calm", "heat", "bare", "broken", "null"}

\* What res.json() resolves with for a body.
jsonOf(name) ==
    CASE name = "calm"   -> Some(calmBody)
      [] name = "heat"   -> Some(heatBody)
      [] name = "bare"   -> Some(bareBody)
      [] name = "broken" -> Some(brokenBody)
      [] name = "null"   -> None

MissingKeyMessage == "Missing API key: Please add VITE_OWM_KEY to your .env file."
SyntaxErrorMessage == "Unexpected token < in JSON at position 0"
NullDataMessage == "Cannot read properties of null (reading 'current')"

defaultRecs ==
    [fertilizer |-> FertDefault, zinc |-> ZincRec, pH |-> PHLime,
     irrigation |-> IrrDefault, pest |-> PestDefault]

\* ------------------------------------------------------------------------
\* Initial state: the component after its first render and effects
\* ------------------------------------------------------------------------

InitDashboard ==
    /\ detailedSoilData = detailedSoilDataInit
    /\ location = ""
    /\ fieldAreaInSqM = 0
    /\ displayedArea = "0.00"
    /\ unit = "acres"
    /\ fieldPolygon = <<>>
    /\ coords = None
    /\ weatherLoading = FALSE
    /\ weatherError = None
    /\ currentWeather = None
    /\ dailyForecast = <<>>
    /\ adaptiveSoil = detailedSoilDataInit
    /\ adaptiveMacroPie = macroPieData
    /\ adaptiveGeneralPie = generalPieData
    /\ adaptiveMicroPie = microPieData
    /\ weatherAlerts = <<>>
    /\ adaptiveRecs = defaultRecs
    /\ pending = <<>>
    /\ issued = 0
    /\ finished = <<>>
    /\ unhandled = FALSE

Init ==
    /\ InitDashboard
    /\ apiKey \in {None, Some("owm-key")}
    /\ arg = <<>>
    /\ ret = None
    /\ calls = 0

\* ------------------------------------------------------------------------
\* fetchWeather
\* ------------------------------------------------------------------------

\* The invocation that ended last, and how.
lastDone ==
    IF Len(finished) = 0
    THEN [id |-> 0, outcome |-> "none", url |-> None, body |-> ""]
    ELSE finished[Len(finished)]

results == <<currentWeather, dailyForecast, weatherAlerts, adaptiveSoil,
             adaptiveMacroPie, adaptiveGeneralPie, adaptiveMicroPie,
             adaptiveRecs>>

Remove(seq, i) == SubSeq(seq, 1, i - 1) \o SubSeq(seq, i + 1, Len(seq))

\* Variant of tryCovers: the try block ends after the status check.
tryCoversRequest(kind) == kind \in {"network", "status"}

\* The statements of lines 284-301 are inside the try block: an error of
\* any of these kinds is caught at line 302.
tryCovers(kind) == kind \in {"network", "status", "json", "data", "analyzer"}

\* e.message || "Failed to fetch weather"
errorText(message) ==
    IF message = "" THEN "Failed to fetch weather" ELSE message

statusMessage(status) ==
    IF status = 401 THEN "Invalid API key"
    ELSE "Weather API error: " \o ToString(status)

\* The guard of fetchWeather.
passesGuard(c, area) == ~(c = None \/ area <= 0)

\* Variant of startFetch: the credential is not looked at before the
\* request is sent.
startFetchNoKeyCheck(c, area) ==
    IF ~passesGuard(c, area)
    THEN UNCHANGED <<weatherLoading, weatherError, fetchVars>>
    ELSE /\ issued' = issued + 1
         /\ weatherLoading' = TRUE
         /\ weatherError' = None
         /\ pending' = Append(pending, [id |-> issued + 1, url |-> c,
                                        stage |-> "fetch"])
         /\ UNCHANGED <<finished, unhandled>>

\* The synchronous start of fetchWeather, run by the effect when coords or
\* fieldAreaInSqM changed; c and area are the values of the new render.
startFetch(c, area) ==
    IF ~passesGuard(c, area)
    THEN UNCHANGED <<weatherLoading, weatherError, fetchVars>>
    ELSE /\ issued' = issued + 1
         /\ UNCHANGED unhandled
         /\ IF apiKey = None \/ apiKey = Some("")
            THEN /\ weatherError' = Some(MissingKeyMessage)
                 /\ weatherLoading' = FALSE
                 /\ finished' = Append(finished,
                                        [id |-> issued + 1, outcome |-> "error",
                                         url |-> c, body |-> ""])
                 /\ UNCHANGED pending
            ELSE /\ weatherLoading' = TRUE
                 /\ weatherError' = None
                 /\ pending' = Append(pending, [id |-> issued + 1, url |-> c,
                                                stage |-> "fetch"])
                 /\ UNCHANGED finished

\* catch (e) { setWeatherError(...) } finally { setWeatherLoading(false) }
\* for the invocation pending[i], which ends here.
catchFinally(i, kind, message) ==
    /\ pending' = Remove(pending, i)
    /\ UNCHANGED issued
    /\ IF tryCovers(kind)
       THEN /\ weatherError' = Some(errorText(message))
            /\ weatherLoading' = FALSE
            /\ finished' = Append(finished,
                                   [id |-> pending[i].id, outcome |-> "error",
                                    url |-> pending[i].url, body |-> ""])
            /\ UNCHANGED unhandled
       ELSE /\ unhandled' = TRUE
            /\ finished' = Append(finished,
                                   [id |-> pending[i].id, outcome |-> "escaped",
                                    url |-> pending[i].url, body |-> ""])
            /\ UNCHANGED <<weatherError, weatherLoading>>

frame == <<detailedSoilData, apiKey, location, fieldAreaInSqM, displayedArea,
           unit, fieldPolygon, coords, callVars>>

\* await fetch(url) rejects: the network failed.
FetchRejects(i) ==
    /\ pending[i].stage = "fetch"
    /\ \E m \in NetworkErrors : catchFinally(i, "network", m)
    /\ UNCHANGED <<frame, results>>

\* await fetch(url) resolves with a non-success status: line 288 throws.
FetchRespondsError(i) ==
    /\ pending[i].stage = "fetch"
    /\ \E status \in Statuses :
          /\ ~(status \in 200..299)
          /\ catchFinally(i, "status", statusMessage(status))
    /\ UNCHANGED <<frame, results>>

\* await fetch(url) resolves with res.ok: the invocation awaits res.json().
FetchRespondsOk(i) ==
    /\ pending[i].stage = "fetch"
    /\ \E status \in Statuses : status \in 200..299
    /\ pending' = [pending EXCEPT ![i].stage = "json"]
    /\ UNCHANGED <<frame, results, weatherLoading, weatherError, issued,
                   finished, unhandled>>

\* await res.json() rejects: the body is not JSON.
JsonRejects(i) ==
    /\ pending[i].stage = "json"
    /\ catchFinally(i, "json", SyntaxErrorMessage)
    /\ UNCHANGED <<frame, results>>

\* Variant of next7Of: the upstream sequence is taken whole.
next7OfAll(data) == IF data.daily = None THEN <<>> ELSE The(data.daily)

\* (data.daily || []).slice(0, 7)
next7Of(data) ==
    LET d == IF data.daily = None THEN <<>> ELSE The(data.daily)
    IN  SubSeq(d, 1, IF Len(d) < 7 THEN Len(d) ELSE 7)

\* Lines 295-301 and the finally block: the results of the analysis r of
\* the invocation pending[i] are stored.
applyResults(i, name, r, pie) ==
    /\ weatherAlerts' = r.alerts
    /\ adaptiveSoil' = r.adjustedSoil
    /\ adaptiveMacroPie' = pie.macro
    /\ adaptiveGeneralPie' = pie.general
    /\ adaptiveMicroPie' = pie.micro
    /\ adaptiveRecs' = r.recs
    /\ weatherLoading' = FALSE
    /\ pending' = Remove(pending, i)
    /\ finished' = Append(finished,
                           [id |-> pending[i].id, outcome |-> "applied",
                            url |-> pending[i].url, body |-> name])
    /\ UNCHANGED <<weatherError, issued, unhandled>>

\* Variant of applyData: the data of an invocation that is no longer the
\* latest one is dropped.
applyIfLatest(i, name, data, next7, r) ==
    IF pending[i].id = issued
    THEN /\ currentWeather' = data.current
         /\ dailyForecast' = next7
         /\ detailedSoilData' = r.baseline
         /\ IF r.threw
            THEN /\ catchFinally(i, "analyzer", r.message)
                 /\ UNCHANGED <<weatherAlerts, adaptiveSoil, adaptiveMacroPie,
                                adaptiveGeneralPie, adaptiveMicroPie, adaptiveRecs>>
            ELSE applyResults(i, name, r, buildPieFromSoil(r.adjustedSoil))
    ELSE /\ pending' = Remove(pending, i)
         /\ finished' = Append(finished,
                                [id |-> pending[i].id, outcome |-> "dropped",
                                 url |-> pending[i].url, body |-> name])
         /\ UNCHANGED <<results, detailedSoilData, weatherLoading, weatherError,
                        issued, unhandled>>

\* Lines 291-294, and what follows the call of analyzeWeather, whose
\* outcome is r.
applyData(i, name, data, next7, r) ==
    /\ currentWeather' = data.current
    /\ dailyForecast' = next7
    /\ detailedSoilData' = r.baseline
    /\ IF r.threw
       THEN /\ catchFinally(i, "analyzer", r.message)
            /\ UNCHANGED <<weatherAlerts, adaptiveSoil, adaptiveMacroPie,
                           adaptiveGeneralPie, adaptiveMicroPie, adaptiveRecs>>
       ELSE applyResults(i, name, r, buildPieFromSoil(r.adjustedSoil))

\* await res.json() resolves with `data`: lines 291-301, then finally.
JsonResolves(i) ==
    /\ pending[i].stage = "json"
    /\ UNCHANGED <<apiKey, location, fieldAreaInSqM, displayedArea, unit,
                   fieldPolygon, coords, callVars>>
    /\ \E name \in BodyNames :
          IF jsonOf(name) = None
          THEN /\ catchFinally(i, "data", NullDataMessage)
               /\ UNCHANGED <<results, detailedSoilData>>
          ELSE applyData(i, name, The(jsonOf(name)), next7Of(The(jsonOf(name))),
                         analyzeWeather(next7Of(The(jsonOf(name)))))

\* ------------------------------------------------------------------------
\* Handlers
\* ------------------------------------------------------------------------

\* handleMapLocationSelect, followed by the effects of the render it causes:
\* the area effect when fieldAreaInSqM changed, fetchWeather when coords was
\* set (computeCentroid returns a new object every time) or the area changed.
handleMapLocationSelect(selectedLocation, coordinates, areaInSqMeters) ==
    LET setsArea   == areaInSqMeters # None /\ The(areaInSqMeters) # 0
        area       == IF setsArea THEN The(areaInSqMeters) ELSE fieldAreaInSqM
        hasPolygon == coordinates # None /\ Len(The(coordinates)) # 0
        cen        == IF hasPolygon THEN computeCentroid(The(coordinates))
                      ELSE None
        setsCoords == hasPolygon /\ cen # None
        c          == IF setsCoords THEN cen ELSE coords
        refetch    == setsCoords \/ area # fieldAreaInSqM
    IN  /\ refetch /\ passesGuard(c, area) => issued < MaxFetches
        /\ location' = selectedLocation
        /\ fieldAreaInSqM' = area
        /\ fieldPolygon' = IF hasPolygon THEN The(coordinates) ELSE fieldPolygon
        /\ coords' = c
        /\ displayedArea' = IF area # fieldAreaInSqM THEN areaEffect(area, unit)
                            ELSE displayedArea
        /\ IF refetch THEN startFetch(c, area)
           ELSE UNCHANGED <<weatherLoading, weatherError, fetchVars>>
        /\ UNCHANGED <<detailedSoilData, apiKey, unit, results, ret, calls>>

SelectOnMap ==
    \E l \in SelLocations, p \in SelPolygons, a \in SelAreas :
        handleMapLocationSelect(l, p, a) /\ UNCHANGED arg

Next ==
    \/ SelectOnMap
    \/ \E i \in 1..Len(pending) : FetchRejects(i)
    \/ \E i \in 1..Len(pending) : FetchRespondsError(i)
    \/ \E i \in 1..Len(pending) : FetchRespondsOk(i)
    \/ \E i \in 1..Len(pending) : JsonRejects(i)
    \/ \E i \in 1..Len(pending) : JsonResolves(i)

Spec == Init /\ [][Next]_vars

\* ------------------------------------------------------------------------
\* The map selector alone: selections follow one another while the forecast
\* provider has not answered; arg keeps the polygon and the area the
\* handler was last called with.
\* ------------------------------------------------------------------------

SelectLogged ==
    \E l \in SelLocations, p \in SelPolygons, a \in SelAreas :
        handleMapLocationSelect(l, p, a) /\ arg' = <<p, a>>

NextSelect == SelectLogged

SpecSelect == Init /\ [][NextSelect]_vars

\* ------------------------------------------------------------------------
\* The field area and its unit: areas arrive from the map selector without
\* a polygon (coords stays null, so no forecast is requested) and the unit
\* is chosen in the drop-down next to the displayed area.
\* ------------------------------------------------------------------------

MaxArea == 12

\* Areas at which area * factor lies half way between two hundredths.
HalfwayAreas == {50, 250, 750, 1550, 100000}

AreaInputs ==
    {None} \cup {Some(a) : a \in ((0 - 1)..MaxArea) \cup HalfwayAreas \cup {4047, 10000}}

\* The <option> values of the unit drop-down.
unitOptions == {"sq_m", "sq_ft", "acres", "hectares", "bigha", "katha"}

\* onChange of the drop-down, followed by the area effect of the render it
\* causes (unit is one of the effect's dependencies).
setUnit(u) ==
    /\ unit' = u
    /\ displayedArea' = IF u # unit THEN areaEffect(fieldAreaInSqM, u)
                        ELSE displayedArea
    /\ UNCHANGED <<detailedSoilData, apiKey, location, fieldAreaInSqM,
                   fieldPolygon, coords, weatherLoading, weatherError,
                   results, fetchVars, callVars>>

SelectArea ==
    \E a \in AreaInputs :
        handleMapLocationSelect("Plot 7", None, a) /\ UNCHANGED arg

ChooseUnit == \E u \in unitOptions : setUnit(u)

NextArea == SelectArea \/ ChooseUnit

SpecArea == Init /\ [][NextArea]_vars

\* ------------------------------------------------------------------------
\* computeCentroid called directly, on every vertex list of Polygons
\* ------------------------------------------------------------------------

MaxCoord == 2

MaxVertices == 3

\* The vertex lists of at most MaxVertices points of the grid.
GridPoints == (0..MaxCoord) \X (0..MaxCoord)

GridLists == UNION {[1..n -> GridPoints] : n \in 0..MaxVertices}

\* Every list of four vertices among the nine points of the 3 x 3 grid.
Quads == [1..4 -> (0..2) \X (0..2)]

\* The corners of an axis-aligned rectangle, counter-clockwise from
\* (x1, y1).
Rectangle(x1, y1, x2, y2) == << <<x1, y1>>, <<x2, y1>>, <<x2, y2>>, <<x1, y2>> >>

Reverse(cs) == [i \in 1..Len(cs) |-> cs[Len(cs) + 1 - i]]

Rotate(cs, k) == [i \in 1..Len(cs) |-> cs[((i + k - 1) % Len(cs)) + 1]]

\* The same boundary from every starting vertex, in both directions.
Traversals(cs) ==
    {Rotate(cs, k) : k \in 0..(Len(cs) - 1)}
      \cup {Rotate(Reverse(cs), k) : k \in 0..(Len(cs) - 1)}

\* Rectangles away from the grid: the square of side 100 centred at (0, 0),
\* and rectangles whose centre is not a grid point.
FarRectangles ==
    UNION {Traversals(r) : r \in {Rectangle(0 - 50, 0 - 50, 50, 50),
                                   Rectangle(0 - 3, 1, 4, 2),
                                   Rectangle(10, 0 - 7, 13, 20)}}

Polygons == GridLists \cup Quads \cup FarRectangles

InitCentroid ==
    /\ InitDashboard
    /\ apiKey = Some("owm-key")
    /\ arg \in Polygons
    /\ ret = None
    /\ calls = 0

\* The caller stores what computeCentroid(arg) returned.
CallCentroid ==
    /\ ret = None
    /\ ret' = Some(computeCentroid(arg))
    /\ calls' = calls + 1
    /\ UNCHANGED <<detailedSoilData, arg, apiKey, dashVars, fetchVars>>

NextCentroid == CallCentroid

SpecCentroid == InitCentroid /\ [][NextCentroid]_vars

\* ------------------------------------------------------------------------
\* Properties of computeCentroid (under SpecCentroid)
\* ------------------------------------------------------------------------

\* computeCentroid(arg) has returned; Centroid is the point it returned.
CentroidReturned == ret # None

Centroid == The(The(ret))

\* Twice the signed area of the triangle p, q, r: positive when r is to
\* the left of the line from p to q, zero when the three are collinear.
Cross(p, q, r) ==
    (q[1] - p[1]) * (r[2] - p[2]) - (q[2] - p[2]) * (r[1] - p[1])

AllCollinear(cs) ==
    \A i, j, k \in 1..Len(cs) : Cross(cs[i], cs[j], cs[k]) = 0

\* Twice the signed area enclosed by the closed vertex list cs, as the sum
\* of the triangles it spans with its first vertex.
RECURSIVE FanArea(_, _)
FanArea(cs, n) ==
    IF n < 3 THEN 0 ELSE FanArea(cs, n - 1) + Cross(cs[1], cs[n - 1], cs[n])

ZeroArea(cs) == FanArea(cs, Len(cs)) = 0

FirstVertex(cs) == [lat |-> [num |-> cs[1][1], den |-> 1],
                    lon |-> [num |-> cs[1][2], den |-> 1]]

\* C13: computeCentroid returns null for the empty list; for a non-empty
\* list of zero signed area (one point, repeated points, two points,
\* collinear points, or loops that cancel) it returns the first vertex
\* exactly; and no division by a zero area takes place.
C13_DegenerateGivesFirstVertex ==
    CentroidReturned =>
        /\ arg = <<>> <=> The(ret) = None
        /\ (arg # <<>> /\ (AllCollinear(arg) \/ ZeroArea(arg))) =>
              Centroid = FirstVertex(arg)
        /\ arg # <<>> => (Centroid.lat.den > 0 /\ Centroid.lon.den > 0)

\* Three distinct collinear points, the first of which is not the middle
\* one: the first vertex came back.
C13_Witness ==
    /\ CentroidReturned
    /\ arg = << <<2, 2>>, <<0, 0>>, <<1, 1>> >>
    /\ Centroid = FirstVertex(arg)

\* The side of the line from a to b on which the point pt lies, as the sign
\* of this number (positive: left); pt has rational coordinates.
SideOf(a, b, pt) ==
    (b[1] - a[1]) * (pt.lon.num - a[2] * pt.lon.den) * pt.lat.den
      - (b[2] - a[2]) * (pt.lat.num - a[1] * pt.lat.den) * pt.lon.den

\* pt lies in the convex hull of the vertices cs, which are not all
\* collinear: it is on the inner side of every line through two vertices
\* that has all vertices on one side.
InHull(pt, cs) ==
    \A i, j \in 1..Len(cs) :
        (/\ cs[i] # cs[j]
         /\ \A k \in 1..Len(cs) : Cross(cs[i], cs[j], cs[k]) >= 0)
            => SideOf(cs[i], cs[j], pt) >= 0

\* r, collinear with p and q, lies on the closed segment from p to q.
Between(p, q, r) ==
    /\ (p[1] <= r[1] /\ r[1] <= q[1]) \/ (q[1] <= r[1] /\ r[1] <= p[1])
    /\ (p[2] <= r[2] /\ r[2] <= q[2]) \/ (q[2] <= r[2] /\ r[2] <= p[2])

Opposite(x, y) == (x > 0 /\ y < 0) \/ (x < 0 /\ y > 0)

\* The closed segments a-b and c-d have a point in common.
Meet(a, b, c, d) ==
    \/ /\ Opposite(Cross(a, b, c), Cross(a, b, d))
       /\ Opposite(Cross(c, d, a), Cross(c, d, b))
    \/ (Cross(a, b, c) = 0 /\ Between(a, b, c))
    \/ (Cross(a, b, d) = 0 /\ Between(a, b, d))
    \/ (Cross(c, d, a) = 0 /\ Between(c, d, a))
    \/ (Cross(c, d, b) = 0 /\ Between(c, d, b))

\* The vertex after cs[i] on the closed boundary.
After(cs, i) == cs[(i % Len(cs)) + 1]

\* cs is the boundary of a simple polygon: at least three distinct
\* vertices, consecutive edges that share their common vertex only, and
\* other edges that do not touch.
Simple(cs) ==
    /\ Len(cs) >= 3
    /\ \A i, j \in 1..Len(cs) : i # j => cs[i] # cs[j]
    /\ \A i \in 1..Len(cs) :
          ~(/\ Cross(cs[i], After(cs, i), After(cs, (i % Len(cs)) + 1)) = 0
            /\ \/ Between(cs[i], After(cs, i), After(cs, (i % Len(cs)) + 1))
               \/ Between(After(cs, i), After(cs, (i % Len(cs)) + 1), cs[i]))
    /\ \A i, j \in 1..Len(cs) :
          (i # j /\ (i % Len(cs)) + 1 # j /\ (j % Len(cs)) + 1 # i)
             => ~Meet(cs[i], After(cs, i), cs[j], After(cs, j))

\* C14 as stated: for every list of at least 3 vertices that are not all
\* collinear, in any vertex order, the point computeCentroid returns lies
\* in the convex hull of the vertices.
C14_CentroidInHull ==
    (CentroidReturned /\ Len(arg) >= 3 /\ ~AllCollinear(arg)) =>
        InHull(Centroid, arg)

\* C14 as amended: for every list of at least 3 vertices that is the
\* boundary of a simple polygon (from any starting vertex, in either
\* direction), the point computeCentroid returns lies in the convex hull
\* of the vertices.
C14_SimplePolygonCentroidInHull ==
    (CentroidReturned /\ Simple(arg) /\ ~AllCollinear(arg)) =>
        InHull(Centroid, arg)

\* A concave quadrilateral, traversed clockwise: its centroid is in the
\* hull and is none of its vertices.
C14_Witness ==
    /\ CentroidReturned
    /\ arg = << <<1, 2>>, <<1, 1>>, <<2, 0>>, <<0, 0>> >>
    /\ Simple(arg)
    /\ InHull(Centroid, arg)
    /\ \A i \in 1..Len(arg) : Centroid # FirstVertex(<<arg[i]>>)

\* The least and the greatest of the k-th coordinates of cs.
Least(cs, k) ==
    CHOOSE v \in {cs[i][k] : i \in 1..Len(cs)} :
        \A i \in 1..Len(cs) : v <= cs[i][k]

Greatest(cs, k) ==
    CHOOSE v \in {cs[i][k] : i \in 1..Len(cs)} :
        \A i \in 1..Len(cs) : v >= cs[i][k]

\* cs goes round an axis-aligned rectangle of positive width and height,
\* from any corner, in either direction.
IsRectangle(cs) ==
    /\ Len(cs) = 4
    /\ Least(cs, 1) < Greatest(cs, 1)
    /\ Least(cs, 2) < Greatest(cs, 2)
    /\ cs \in Traversals(Rectangle(Least(cs, 1), Least(cs, 2),
                                    Greatest(cs, 1), Greatest(cs, 2)))

Halves(n) == IF n % 2 = 0 THEN [num |-> n \div 2, den |-> 1]
             ELSE [num |-> n, den |-> 2]

Centre(cs) == [lat |-> Halves(Least(cs, 1) + Greatest(cs, 1)),
               lon |-> Halves(Least(cs, 2) + Greatest(cs, 2))]

\* C15: for every axis-aligned rectangle computeCentroid returns the
\* centre of the rectangle, whichever corner the list starts at and
\* whichever way round it goes.
C15_RectangleCentre ==
    (CentroidReturned /\ IsRectangle(arg)) => Centroid = Centre(arg)

\* A rectangle with negative coordinates, clockwise from its second corner:
\* the centre (1/2, 3/2) came back.
C15_Witness ==
    /\ CentroidReturned
    /\ arg = Rotate(Reverse(Rectangle(0 - 3, 1, 4, 2)), 1)
    /\ Centroid = [lat |-> [num |-> 1, den |-> 2], lon |-> [num |-> 3, den |-> 2]]

\* ------------------------------------------------------------------------
\* Properties of handleMapLocationSelect (under SpecSelect)
\* ------------------------------------------------------------------------

\* The selection passed an empty polygon or a zero area.
Degenerate(a) == a[1] = Some(<<>>) \/ a[2] = Some(0)

\* C11: a map selection with an empty polygon or a zero area issues no
\* forecast request and does not set the error state, whatever was selected
\* before; and a request is issued only when the field has a coordinate and
\* a positive area.
C11_DegenerateSelectionIssuesNothing ==
    [][/\ Degenerate(arg') =>
            /\ issued' = issued
            /\ weatherError' \in {None, weatherError}
       /\ issued' > issued => passesGuard(coords', fieldAreaInSqM')]_vars

\* ------------------------------------------------------------------------
\* Properties of fetchWeather (under Spec)
\* ------------------------------------------------------------------------

\* An invocation ends in this step; Ended is its record.
Ends == Len(finished') > Len(finished)

Ended == finished'[Len(finished')]

\* The results computed by the analysis, as opposed to the stored forecast.
analysis == <<weatherAlerts, adaptiveSoil, adaptiveMacroPie,
              adaptiveGeneralPie, adaptiveMicroPie, adaptiveRecs>>

\* The bodies with which a fetch succeeds: JSON objects whose first seven
\* daily entries analyzeWeather accepts.
GoodBodies ==
    {n \in BodyNames :
        /\ jsonOf(n) # None
        /\ ~analyze(detailedSoilDataInit, next7Of(The(jsonOf(n)))).threw}

\* What the dashboard displays once the body named n has been applied.
ResultsFrom(data, r) ==
    <<data.current, next7Of(data), r.alerts, r.adjustedSoil,
      buildPieFromSoil(r.adjustedSoil).macro,
      buildPieFromSoil(r.adjustedSoil).general,
      buildPieFromSoil(r.adjustedSoil).micro, r.recs>>

ResultsOf(n) ==
    ResultsFrom(The(jsonOf(n)),
                analyze(detailedSoilDataInit, next7Of(The(jsonOf(n)))))

\* C1: a forecast fetch that ends in the error state leaves every displayed
\* result as it was: the step in which it ends changes none of current
\* weather, daily forecast, alerts, adjusted soil, pie datasets and
\* recommendations (its earlier steps change no state but its own).
C1_ErrorLeavesResults ==
    [][(Ends /\ Ended.outcome = "error") => results' = results]_vars

\* C2: the displayed results are those of the fetch that succeeded last,
\* whatever the order in which the fetches were requested.
C2_LastResolvedWins ==
    lastDone.body \in GoodBodies => results = ResultsOf(lastDone.body)

\* Two fetches were in flight together, both succeeded with different
\* bodies, and the one requested first resolved last: its results are shown.
C2_Witness ==
    /\ Len(finished) = 2
    /\ finished[1].id = 2 /\ finished[1].outcome = "applied"
    /\ finished[2].id = 1 /\ finished[2].outcome = "applied"
    /\ finished[1].body # finished[2].body
    /\ results = ResultsOf(finished[2].body)
    /\ results # ResultsOf(finished[1].body)

\* C3: results are applied only for the most recently issued request, so
\* when no fetch is in flight the results on display are those of the
\* latest request and of the coordinate now selected.
C3_StaleResultsDiscarded ==
    (pending = <<>> /\ lastDone.outcome = "applied") =>
        (lastDone.id = issued /\ lastDone.url = coords)

\* The messages the catch block may show for a request that failed before a
\* body was read.
KeyMissing == apiKey = None \/ apiKey = Some("")

UpstreamMessages == {statusMessage(st) : st \in Statuses \ {200}}

NetworkMessages == {errorText(m) : m \in NetworkErrors}

\* C12: without a credential a triggered fetch sends nothing, ends at once
\* with the missing-API-key message and weatherLoading false, and is not
\* run again; with a credential that message never shows; status 401 gives
\* 'Invalid API key', any other failing status 'Weather API error: <status>',
\* and the three messages differ.
C12_MissingKeyReportedAtOnce ==
    [][/\ KeyMissing =>
            /\ pending' = <<>>
            /\ Len(finished') = issued'
            /\ issued' <= issued + 1
            /\ issued' > issued =>
                  /\ weatherError' = Some(MissingKeyMessage)
                  /\ weatherLoading' = FALSE
                  /\ Ended.outcome = "error"
       /\ ~KeyMissing =>
            /\ weatherError' # Some(MissingKeyMessage)
            /\ (Ends /\ Ended.outcome = "error"
                     /\ \E i \in 1..Len(pending) :
                           pending[i].id = Ended.id /\ pending[i].stage = "fetch")
                  => The(weatherError') \in UpstreamMessages \cup NetworkMessages
       /\ statusMessage(401) = "Invalid API key"
       /\ \A st \in Statuses \ {200, 401} :
            /\ statusMessage(st) = "Weather API error: " \o ToString(st)
            /\ statusMessage(st) # statusMessage(401)
       /\ MissingKeyMessage \notin UpstreamMessages]_vars

\* Two selections triggered the fetch without a credential: each ended at
\* once with the missing-key message and nothing was sent.
C12_Witness ==
    /\ KeyMissing
    /\ issued = 2
    /\ Len(finished) = 2
    /\ pending = <<>>
    /\ weatherError = Some(MissingKeyMessage)
    /\ weatherLoading = FALSE

\* C4: every fetch that passes the guard is in flight or has ended, and it
\* ends either with its results applied or with a non-empty error message,
\* never both and never otherwise; weatherLoading is false when it ends and
\* no error leaves fetchWeather.
C4_FetchEndsOneWay ==
    [][/\ Len(finished') + Len(pending') = issued'
       /\ ~unhandled'
       /\ Ends =>
            /\ weatherLoading' = FALSE
            /\ Ended.outcome \in {"applied", "error"}
            /\ Ended.outcome = "applied" =>
                  /\ results' = ResultsOf(Ended.body)
                  /\ weatherError' = weatherError
            /\ Ended.outcome = "error" =>
                  /\ weatherError' # None
                  /\ The(weatherError') # ""
                  /\ analysis' = analysis]_vars

\* One fetch has ended with its results applied and another with the error
\* the analyzer threw; the loading flag is off.
C4_Witness ==
    /\ Len(finished) = 2
    /\ finished[1].outcome = "applied"
    /\ finished[2].outcome = "error"
    /\ weatherError = Some(TypeErrorMessage)
    /\ weatherLoading = FALSE

\* ------------------------------------------------------------------------
\* analyzeWeather called directly, on every forecast of Forecasts
\* ------------------------------------------------------------------------

InitAnalyze ==
    /\ InitDashboard
    /\ apiKey = Some("owm-key")
    /\ arg \in Forecasts
    /\ ret = None
    /\ calls = 0

\* The caller stores what analyzeWeather(arg) returned (r).
callReturns(r) ==
    /\ ret' = Some(r)
    /\ detailedSoilData' = r.baseline
    /\ calls' = calls + 1
    /\ UNCHANGED <<arg, apiKey, dashVars, fetchVars>>

Call ==
    /\ calls < MaxCalls
    /\ callReturns(analyzeWeather(arg))

\* The caller takes another forecast for its next call.
Pick ==
    /\ ret # None
    /\ calls < MaxCalls
    /\ \E w \in Weeks : arg' = w
    /\ ret' = None
    /\ UNCHANGED <<detailedSoilData, calls, apiKey, dashVars, fetchVars>>

NextAnalyze == Call \/ Pick

SpecAnalyze == InitAnalyze /\ [][NextAnalyze]_vars

\* ------------------------------------------------------------------------
\* Properties of analyzeWeather (under SpecAnalyze)
\* ------------------------------------------------------------------------

\* The signals of a forecast, read off the forecast itself.
rainOf(d) == IF d.rain = None THEN 0 ELSE The(d.rain)

HeavyRainDays(daily) ==
    {i \in 1..Len(daily) :
        rainOf(daily[i]) >= 50 \/ (daily[i].pop >= 80 /\ rainOf(daily[i]) >= 30)}

DryHotDay(d) == d.pop <= 20 /\ d.temp # None /\ The(d.temp).max >= 35

\* Some k consecutive days are all dry-hot.
HeatRun(daily, k) ==
    \E i \in 1..(Len(daily) - k + 1) : \A j \in i..(i + k - 1) : DryHotDay(daily[j])

WindDay(d) == d.wind_speed # None /\ The(d.wind_speed) >= 12

FungalDay(d) ==
    /\ d.humidity # None /\ The(d.humidity) >= 90
    /\ d.temp # None /\ The(d.temp).max >= 28

SomeRuleFires(daily) ==
    \/ \E i \in 1..Len(daily) : WindDay(daily[i]) \/ FungalDay(daily[i])
    \/ HeavyRainDays(daily) # {}
    \/ HeatRun(daily, 3)

\* analyzeWeather(arg) has returned normally.
Returned == ret # None /\ ~The(ret).threw

Contains(a, x) == \E i \in 1..Len(a) : a[i] = x

\* The entry of a soil group with the given name, and its value as text.
Entry(group, name) == CHOOSE e \in {group[i] : i \in 1..Len(group)} : e.name = name

Shown(group, name) == Str(Entry(group, name).value)

\* C5: for every forecast the alert list analyzeWeather returns is not empty
\* and holds no string twice; it is the single sentinel when no rule fires
\* and does not hold the sentinel when a rule fires.
C5_AlertsDistinctNonEmpty ==
    Returned =>
        LET a == The(ret).alerts
        IN  /\ Len(a) >= 1
            /\ \A i, j \in 1..Len(a) : i # j => a[i] # a[j]
            /\ ~SomeRuleFires(arg) => a = <<AlertNone>>
            /\ SomeRuleFires(arg) => ~Contains(a, AlertNone)

\* A week in which the wind and the fungal rule fire twice each has been
\* analysed: each alert is listed once.
C5_Witness ==
    /\ Returned
    /\ arg = Week(<<muggyDay, windyDay, muggyDay, windyDay>>)
    /\ The(ret).alerts = <<AlertFungal, AlertWind>>

\* C6: with no heavy-rain day and no heat streak of three days the adjusted
\* soil record equals the baseline, values and statuses alike, and the
\* fertilizer recommendation is the default balanced-NPK text.
C6_CalmWeekKeepsBaseline ==
    (Returned /\ HeavyRainDays(arg) = {} /\ ~HeatRun(arg, 3)) =>
        /\ The(ret).adjustedSoil = detailedSoilDataInit
        /\ The(ret).recs.fertilizer = FertDefault

\* Scenario A (seven calm days) has been analysed.
C6_Witness ==
    /\ Returned
    /\ arg = Week(<<>>)
    /\ The(ret).alerts = <<AlertNone>>
    /\ The(ret).adjustedSoil = detailedSoilDataInit

\* What a caller can see of a returned value.
outputs(r) == <<r.alerts, r.adjustedSoil, r.recs>>

\* C7: after any sequence of calls the baseline detailedSoilData is what it
\* was at load time, and the value returned for a forecast is the value the
\* first call of the program would return for it.
C7_BaselineUntouched ==
    /\ detailedSoilData = detailedSoilDataInit
    /\ Returned =>
          outputs(The(ret)) = outputs(analyze(detailedSoilDataInit, arg))

\* A second call has returned, for a forecast that rewrites soil values.
C7_Witness ==
    /\ Returned
    /\ calls = 2
    /\ HeavyRainDays(arg) # {}
    /\ Shown(The(ret).adjustedSoil.macroNutrients, NameN) = "189 kg/ha"

\* C8: with at least one heavy-rain day (however many) and no heat streak of
\* three days, the adjusted soil shows N 189 kg/ha, K 110 kg/ha, pH 5.7 and
\* OC 0.44%, and the leaching alert is present.
C8_HeavyRainAppliedOnce ==
    (Returned /\ HeavyRainDays(arg) # {} /\ ~HeatRun(arg, 3)) =>
        LET soil == The(ret).adjustedSoil
        IN  /\ Shown(soil.macroNutrients, NameN) = "189 kg/ha"
            /\ Shown(soil.macroNutrients, NameK) = "110 kg/ha"
            /\ Shown(soil.general, NamePH) = "5.7"
            /\ Shown(soil.general, NameOC) = "0.44%"
            /\ Contains(The(ret).alerts, AlertLeach)

\* A forecast with seven heavy-rain days has been analysed.
C8_Witness ==
    /\ Returned
    /\ Cardinality(HeavyRainDays(arg)) = 7
    /\ Shown(The(ret).adjustedSoil.macroNutrients, NameN) = "189 kg/ha"

\* C9: with a heat streak of three days or more and no heavy-rain day, the
\* adjusted soil shows K 114 kg/ha, pH 5.9, OC 0.46% and N 210 kg/ha, the
\* drought alert is present and the irrigation advice is the shorter,
\* more frequent irrigation text.
C9_HeatStreakAdjusts ==
    (Returned /\ HeatRun(arg, 3) /\ HeavyRainDays(arg) = {}) =>
        LET soil == The(ret).adjustedSoil
        IN  /\ Shown(soil.macroNutrients, NameK) = "114 kg/ha"
            /\ Shown(soil.general, NamePH) = "5.9"
            /\ Shown(soil.general, NameOC) = "0.46%"
            /\ Shown(soil.macroNutrients, NameN) = "210 kg/ha"
            /\ Contains(The(ret).alerts, AlertDrought)
            /\ The(ret).recs.irrigation = IrrHeat

\* Scenario C (exactly three hot dry days in a row) has been analysed.
C9_Witness ==
    /\ Returned
    /\ arg = Week(<<hotDay, hotDay, hotDay>>)
    /\ Shown(The(ret).adjustedSoil.macroNutrients, NameK) = "114 kg/ha"

\* The classification the thresholds prescribe for a displayed value.
Status(v, lo, hi) == IF v < lo THEN "Low" ELSE IF v > hi THEN "High" ELSE "Optimal"

Reading(group, name) == numOfString(Entry(group, name).value)

StatusFits(group, name, lo, hi) ==
    /\ Entry(group, name).status \in {"Low", "Optimal", "High"}
    /\ Entry(group, name).status = Status(Reading(group, name), lo, hi)

\* C10: in every adjusted soil record the status of N, P, K, pH and OC is
\* Low, Optimal or High and is the threshold class of the entry's own
\* displayed value (N 250/350, P 12/30, K 150/300, pH 6.0/7.5, OC 0.75/1.5).
C10_StatusFromValue ==
    Returned =>
        LET soil == The(ret).adjustedSoil
        IN  /\ StatusFits(soil.macroNutrients, NameN, 250 * Scale, 350 * Scale)
            /\ StatusFits(soil.macroNutrients, NameP, 12 * Scale, 30 * Scale)
            /\ StatusFits(soil.macroNutrients, NameK, 150 * Scale, 300 * Scale)
            /\ StatusFits(soil.general, NamePH, 6 * Scale, 75 * (Scale \div 10))
            /\ StatusFits(soil.general, NameOC, 75 * (Scale \div 100),
                          15 * (Scale \div 10))

\* A forecast with heavy rain and a heat wave has been analysed: every
\* adjustable value differs from the baseline or was rewritten.
C10_Witness ==
    /\ Returned
    /\ HeavyRainDays(arg) # {}
    /\ HeatRun(arg, 3)
    /\ Shown(The(ret).adjustedSoil.macroNutrients, NameK) = "105 kg/ha"
    /\ Entry(The(ret).adjustedSoil.macroNutrients, NameP).status = "Optimal"

\* The recommendations analyzeWeather(arg) returned.
Recs == The(ret).recs

RainSignal == HeavyRainDays(arg) # {}

HeatSignal == HeatRun(arg, 3)

\* C16: the fertilizer recommendation is the heavy-rain text whenever there
\* is a heavy-rain day (also with a heat streak of 3), else the K-rich text
\* when the heat streak reaches 3, else the balanced-NPK text; the three
\* texts differ, so exactly one is returned.
C16_FertilizerPriority ==
    Returned =>
        /\ Recs.fertilizer = IF RainSignal THEN FertHeavyRain
                             ELSE IF HeatSignal THEN FertHeat ELSE FertDefault
        /\ Cardinality({FertHeavyRain, FertHeat, FertDefault}) = 3

\* Heavy rain and a heat wave in one forecast: the heavy-rain text wins.
C16_Witness ==
    /\ Returned
    /\ RainSignal /\ HeatSignal
    /\ Recs.fertilizer = FertHeavyRain

\* C17: the irrigation recommendation is the shorter/frequent text whenever
\* the heat streak reaches 3 (also with heavy rain), else the delay text
\* when there is a heavy-rain day, else the default interval text.
C17_IrrigationPriority ==
    Returned =>
        /\ Recs.irrigation = IF HeatSignal THEN IrrHeat
                             ELSE IF RainSignal THEN IrrRain ELSE IrrDefault
        /\ Cardinality({IrrHeat, IrrRain, IrrDefault}) = 3

\* Heavy rain and a heat wave in one forecast: the heat text wins.
C17_Witness ==
    /\ Returned
    /\ RainSignal /\ HeatSignal
    /\ Recs.irrigation = IrrHeat
    /\ Recs.fertilizer # FertHeat

\* C18 as stated: the pH recommendation ends with the liming suggestion; it
\* carries the prefix when the heat signal or the rain signal fires and is
\* the suggestion alone when neither fires.
C18_PrefixOnHeatOrRain ==
    Returned =>
        Recs.pH = IF HeatSignal \/ RainSignal THEN PHRainPrefix \o PHLime
                  ELSE PHLime

\* C18 as amended: the pH recommendation ends with the liming suggestion; it
\* carries the prefix exactly when the rain signal fires, whatever the heat
\* signal, and is the suggestion alone otherwise.
C18_PrefixOnRainOnly ==
    Returned =>
        /\ Recs.pH = IF RainSignal THEN PHRainPrefix \o PHLime ELSE PHLime
        /\ PHRainPrefix # ""

\* A heat wave without heavy rain: the suggestion alone.
C18_Witness ==
    /\ Returned
    /\ HeatSignal /\ ~RainSignal
    /\ Recs.pH = PHLime

\* Some day of the forecast has a humidity of 90 or more.
HumidDay == \E i \in 1..Len(arg) :
               arg[i].humidity # None /\ The(arg[i].humidity) >= 90

\* C19: the pest recommendation is the blight text if and only if some day
\* has humidity >= 90 (no humidity counts as 0; the temperature plays no
\* part), and the aphid/whitefly text otherwise.
C19_PestOnHumidity ==
    Returned =>
        /\ Recs.pest = IF HumidDay THEN PestHumid ELSE PestDefault
        /\ PestHumid # PestDefault

\* A humid day below 28 degrees: blight text, and no fungal alert.
C19_Witness ==
    /\ Returned
    /\ HumidDay
    /\ \A i \in 1..Len(arg) : ~FungalDay(arg[i])
    /\ Recs.pest = PestHumid
    /\ ~Contains(The(ret).alerts, AlertFungal)

\* ------------------------------------------------------------------------
\* Properties of the recommendations on display (under Spec)
\* ------------------------------------------------------------------------

\* The forecast gives no signal to any recommendation: no heavy-rain day,
\* no run of 3 dry-hot days, no day with humidity >= 90.
NoSignal(daily) ==
    /\ HeavyRainDays(daily) = {}
    /\ ~HeatRun(daily, 3)
    /\ \A i \in 1..Len(daily) :
          daily[i].humidity = None \/ The(daily[i].humidity) < 90

\* C20: in every state of the dashboard (before any fetch, after fetches
\* that succeeded and fetches that failed) the recommendations have the five
\* fields fertilizer, zinc, pH, irrigation and pest, none of them empty; zinc
\* is the same text whatever the forecast; and the recommendations applied
\* for a forecast without signal are the defaults of the first render.
C20_RecsAlwaysPopulated ==
    /\ DOMAIN adaptiveRecs = {"fertilizer", "zinc", "pH", "irrigation", "pest"}
    /\ \A f \in DOMAIN adaptiveRecs : adaptiveRecs[f] # ""
    /\ adaptiveRecs.zinc = ZincRec
    /\ issued = 0 => adaptiveRecs = defaultRecs
    /\ (lastDone.outcome = "applied" /\ NoSignal(dailyForecast)) =>
          adaptiveRecs = defaultRecs

\* A heat-wave forecast was applied, then a calm one: the recommendations
\* left the defaults and came back to them.
C20_Witness ==
    /\ Len(finished) = 2
    /\ finished[1].outcome = "applied" /\ finished[1].body = "heat"
    /\ finished[2].outcome = "applied" /\ finished[2].body = "calm"
    /\ ResultsOf("heat")[8] # defaultRecs
    /\ NoSignal(dailyForecast) /\ Len(dailyForecast) = 7
    /\ adaptiveRecs = defaultRecs

\* ------------------------------------------------------------------------
\* Properties of the displayed area
\* ------------------------------------------------------------------------

\* The counts of hundredths nearest to area * f.n / 10^f.d, computed in
\* decimal: one count, or the two neighbours when the product lies half way.
NearestHundredths(area, f) ==
    LET twice == DivPow10(MulSmall(MulInt(FromInt(f.n), area), 200), f.d)
        v     == ToInt(twice.q)
    IN  IF v % 2 = 0 THEN {v \div 2}
        ELSE IF twice.exact THEN {v \div 2, v \div 2 + 1}
        ELSE {v \div 2 + 1}

\* C21: after the area effect has run, the displayed area is "0.00" when
\* the stored area is <= 0 and otherwise the stored area times the factor
\* of the selected unit with 2 decimals, after every change of area or of
\* unit; every selectable unit has a factor; 10000 m2 in hectares shows
\* "1.00".
C21_DisplayedArea ==
    /\ unitOptions \subseteq DOMAIN conversionFactors
    /\ unit \in unitOptions
    /\ fieldAreaInSqM <= 0 => displayedArea = "0.00"
    /\ fieldAreaInSqM > 0 =>
          \E h \in NearestHundredths(fieldAreaInSqM, conversionFactors[unit]) :
              displayedArea = Str(fixed2(h))
    /\ fieldAreaInSqM = 10000 /\ unit = "hectares" => displayedArea = "1.00"

C21_Witness ==
    /\ fieldAreaInSqM = 10000 /\ unit = "hectares" /\ displayedArea = "1.00"

\* ------------------------------------------------------------------------
\* More properties of analyzeWeather (under SpecAnalyze)
\* ------------------------------------------------------------------------

\* C22: with a heavy-rain day and a heat streak of 3 or more the heat rule
\* works on the values the heavy-rain rule wrote: N is 189 kg/ha, pH is
\* 5.8 (5.8 -> 5.7 -> 5.8), OC is 0.45% (0.45 -> 0.44 -> 0.45) and K is
\* 0.95 * 110 rounded to 0 decimals, below the rain-only 110 and the
\* heat-only 114.
C22_HeatAfterRain ==
    (Returned /\ RainSignal /\ HeatSignal) =>
        LET soil == The(ret).adjustedSoil
            k    == Reading(soil.macroNutrients, NameK)
        IN  /\ Shown(soil.macroNutrients, NameN) = "189 kg/ha"
            /\ Shown(soil.general, NamePH) = "5.8"
            /\ Shown(soil.general, NameOC) = "0.45%"
            /\ Shown(soil.macroNutrients, NameK) = "105 kg/ha"
            /\ 2 * k - 209 * Scale \in (0 - Scale)..Scale
            /\ k < 110 * Scale /\ k < 114 * Scale

\* A week with a four-day heat streak followed by a heavy-rain day has
\* been analysed.
C22_Witness ==
    /\ Returned
    /\ arg = Week(<<calmDay, hotDay, hotDay, hotDay, hotDay, rainDay, windyDay>>)
    /\ Shown(The(ret).adjustedSoil.general, NameOC) = "0.45%"
    /\ Contains(The(ret).alerts, AlertLeach)
    /\ Contains(The(ret).alerts, AlertDrought)

\* The length of the longest run of consecutive dry-hot days.
LongestHeatRun(daily) ==
    CHOOSE k \in 0..Len(daily) : HeatRun(daily, k) /\ ~HeatRun(daily, k + 1)

DryHotDays(daily) == {i \in 1..Len(daily) : DryHotDay(daily[i])}

\* C23: the maximum heat streak of the loop is the length of the longest
\* run of consecutive dry-hot days, and the drought alert is present if
\* and only if that length is 3 or more, however many dry-hot days there
\* are in all.
C23_HeatStreakIsLongestRun ==
    Returned =>
        /\ scanDays(arg, Len(arg)).maxHeatStreak = LongestHeatRun(arg)
        /\ Contains(The(ret).alerts, AlertDrought) <=> LongestHeatRun(arg) >= 3

\* A week with five dry-hot days, no three of them in a row, has been
\* analysed and carries no drought alert.
C23_Witness ==
    /\ Returned
    /\ Cardinality(DryHotDays(arg)) = 5
    /\ LongestHeatRun(arg) = 2
    /\ ~Contains(The(ret).alerts, AlertDrought)
    /\ The(ret).adjustedSoil = detailedSoilDataInit

\* C24: the leaching alert is present if and only if some day has rain
\* >= 50, or pop >= 0.8 together with rain >= 30, a missing rain amount
\* counting as 0; the reductions of the heavy-rain rule (N 210 -> 189,
\* K below the 114 the heat rule alone leaves) are applied under the same
\* condition.
C24_LeachingOnHeavyRain ==
    Returned =>
        LET soil == The(ret).adjustedSoil
        IN  /\ Contains(The(ret).alerts, AlertLeach) <=> HeavyRainDays(arg) # {}
            /\ Shown(soil.macroNutrients, NameN) =
                  (IF HeavyRainDays(arg) # {} THEN "189 kg/ha" ELSE "210 kg/ha")
            /\ Reading(soil.macroNutrients, NameK) < 114 * Scale
                  <=> HeavyRainDays(arg) # {}

\* A single day with pop 0.8 and 30 mm of rain has been analysed: it is a
\* heavy-rain day although its rain is below 50.
C24_Witness ==
    /\ Returned
    /\ Len(arg) = 1
    /\ arg[1].pop = 80 /\ arg[1].rain = Some(30)
    /\ Contains(The(ret).alerts, AlertLeach)
    /\ Shown(The(ret).adjustedSoil.macroNutrients, NameK) = "110 kg/ha"

Count(a, x) == Cardinality({i \in 1..Len(a) : a[i] = x})

\* The forecast without its wind speeds and humidities.
Still(daily) ==
    [i \in 1..Len(daily) |->
        [daily[i] EXCEPT !.wind_speed = None, !.humidity = None]]

\* C25: the wind alert is present if and only if some day has wind speed
\* >= 12, the fungal alert if and only if some single day has humidity
\* >= 90 and max temperature >= 28 (missing values as 0); each is listed at
\* most once, and the adjusted soil is the one of the same forecast
\* without wind and humidity.
C25_WindAndFungalAlerts ==
    Returned =>
        LET a == The(ret).alerts
        IN  /\ Contains(a, AlertWind) <=> \E i \in 1..Len(arg) : WindDay(arg[i])
            /\ Contains(a, AlertFungal) <=> \E i \in 1..Len(arg) : FungalDay(arg[i])
            /\ Count(a, AlertWind) <= 1
            /\ Count(a, AlertFungal) <= 1
            /\ The(ret).adjustedSoil =
                  analyze(detailedSoilDataInit, Still(arg)).adjustedSoil

\* Two windy and two humid warm days fired, and each alert is listed once.
C25_Witness ==
    /\ Returned
    /\ Cardinality({i \in 1..Len(arg) : WindDay(arg[i])}) = 2
    /\ Cardinality({i \in 1..Len(arg) : FungalDay(arg[i])}) = 2
    /\ Count(The(ret).alerts, AlertWind) = 1

\* The first day on which a per-day rule fires (0 when it never does).
FirstWindDay(daily) ==
    IF \E i \in 1..Len(daily) : WindDay(daily[i])
    THEN CHOOSE i \in 1..Len(daily) :
            WindDay(daily[i]) /\ \A j \in 1..(i - 1) : ~WindDay(daily[j])
    ELSE 0

FirstFungalDay(daily) ==
    IF \E i \in 1..Len(daily) : FungalDay(daily[i])
    THEN CHOOSE i \in 1..Len(daily) :
            FungalDay(daily[i]) /\ \A j \in 1..(i - 1) : ~FungalDay(daily[j])
    ELSE 0

\* The per-day alerts in the order the claim gives them.
PerDayAlerts(daily) ==
    LET w == FirstWindDay(daily)
        f == FirstFungalDay(daily)
    IN  IF w = 0 /\ f = 0 THEN <<>>
        ELSE IF f = 0 THEN <<AlertWind>>
        ELSE IF w = 0 THEN <<AlertFungal>>
        ELSE IF w <= f THEN <<AlertWind, AlertFungal>>
        ELSE <<AlertFungal, AlertWind>>

\* C26: the returned alerts are the per-day alerts (wind, fungal) by the
\* earliest day on which each fires, wind before fungal within one day,
\* then the leaching alert, then the drought alert; so the first element
\* is a per-day alert whenever one fires.
C26_AlertOrder ==
    (Returned /\ SomeRuleFires(arg)) =>
        LET a == The(ret).alerts
        IN  /\ a = PerDayAlerts(arg)
                    \o (IF RainSignal THEN <<AlertLeach>> ELSE <<>>)
                    \o (IF HeatSignal THEN <<AlertDrought>> ELSE <<>>)
            /\ PerDayAlerts(arg) # <<>> => a[1] \in {AlertWind, AlertFungal}

\* A week whose only windy day comes after its heat streak and its
\* heavy-rain day has been analysed: the wind alert is still first.
C26_Witness ==
    /\ Returned
    /\ FirstWindDay(arg) = 7
    /\ The(ret).alerts = <<AlertWind, AlertLeach, AlertDrought>>

Names(group) == [i \in 1..Len(group) |-> group[i].name]

\* C28: for every forecast the micro-nutrient entries keep their value and
\* status, Phosphorus keeps its value, and each of the three groups of the
\* adjusted record has the entries of the baseline, by name and in order.
C28_UntouchedEntries ==
    Returned =>
        LET soil == The(ret).adjustedSoil
        IN  /\ soil.microNutrients = detailedSoilDataInit.microNutrients
            /\ Entry(soil.macroNutrients, NameP).value
                  = Entry(detailedSoilDataInit.macroNutrients, NameP).value
            /\ DOMAIN soil = DOMAIN detailedSoilDataInit
            /\ \A g \in DOMAIN detailedSoilDataInit :
                  Names(soil[g]) = Names(detailedSoilDataInit[g])

\* A forecast with heavy rain and a heat streak has been analysed: all
\* four adjustable values were rewritten, Phosphorus and Zinc were not.
C28_Witness ==
    /\ Returned
    /\ RainSignal /\ HeatSignal
    /\ Shown(The(ret).adjustedSoil.macroNutrients, NameP) = "15 kg/ha"
    /\ Shown(The(ret).adjustedSoil.microNutrients, NameZn) = "0.5 ppm"
    /\ Shown(The(ret).adjustedSoil.macroNutrients, NameN) = "189 kg/ha"

\* ------------------------------------------------------------------------
\* More properties of fetchWeather (under Spec)
\* ------------------------------------------------------------------------

\* The daily sequence of the body named n as the provider sent it.
Upstream(n) ==
    IF The(jsonOf(n)).daily = None THEN <<>> ELSE The(The(jsonOf(n)).daily)

FirstSeven(d) == [i \in 1..(IF Len(d) < 7 THEN Len(d) ELSE 7) |-> d[i]]

\* C27: after every successful fetch the stored forecast is the first
\* min(7, n) upstream entries in upstream order (empty when the sequence
\* is absent), and the alerts, the adjusted soil, the recommendations and
\* the three pie datasets on display are what analyzeWeather and
\* buildPieFromSoil give for the stored forecast.
C27_FirstSevenDaysOnly ==
    lastDone.outcome = "applied" =>
        /\ dailyForecast = FirstSeven(Upstream(lastDone.body))
        /\ Len(dailyForecast) <= 7
        /\ ~analyze(detailedSoilDataInit, dailyForecast).threw
        /\ outputs(analyze(detailedSoilDataInit, dailyForecast))
              = <<weatherAlerts, adaptiveSoil, adaptiveRecs>>
        /\ buildPieFromSoil(adaptiveSoil)
              = [macro |-> adaptiveMacroPie, general |-> adaptiveGeneralPie,
                 micro |-> adaptiveMicroPie]

\* A body of eight days whose eighth day is a heavy-rain day has been
\* applied: seven days are stored and nothing shows the rain.
C27_Witness ==
    /\ lastDone.outcome = "applied"
    /\ Len(Upstream(lastDone.body)) = 8
    /\ HeavyRainDays(Upstream(lastDone.body)) = {8}
    /\ Len(dailyForecast) = 7
    /\ ~Contains(weatherAlerts, AlertLeach)
    /\ Shown(adaptiveSoil.macroNutrients, NameN) = "210 kg/ha"

\* C29: in every reachable state weatherLoading is true exactly when at
\* least one fetch is in flight; with two overlapping fetches the end of
\* one does not turn it off while the other is pending.
C29_LoadingWhileInFlight ==
    weatherLoading <=> pending # <<>>

\* The invocation triggered last has ended with its results applied.
LatestSucceeded ==
    \E i \in 1..Len(finished) :
        finished[i].id = issued /\ finished[i].outcome = "applied"

\* C30: whenever no fetch is in flight and the fetch triggered last has
\* completed successfully, weatherError is null: the error of an earlier,
\* superseded fetch does not stay on display.
C30_NoErrorAfterLatestSuccess ==
    (pending = <<>> /\ LatestSucceeded) => weatherError = None

====
